---- MODULE Spec2Model ----
(***************************************************************************)
(* Model of the conversational core of the CUA system chat                 *)
(* (src/index.tsx, src/db.ts): the submit handler with its two tool-call   *)
(* loops, the delegation executor, the session switch and clear handlers   *)
(* and the keyed history store.                                            *)
(*                                                                         *)
(* Strings are modelled as sequences of tokens so that concatenation is    *)
(* sequence concatenation.  Every await of a network or store call is a    *)
(* separate step; code between two awaits is one atomic action (the event  *)
(* loop runs it to completion).  A store request takes effect when it is   *)
(* issued (IndexedDB runs conflicting transactions in creation order) and  *)
(* its continuation runs in a later step.                                  *)
(***************************************************************************)
EXTENDS Integers, Sequences, FiniteSets, TLC

\* ------------------------------------------------------------------ bounds
MaxTurns == 2        \* submissions that start a turn in one run
MaxOps == 2          \* selector changes, clear clicks and file picks in one run
MaxRounds == 1       \* rounds of one turn in which the provider may ask for a tool
MaxPersona == 2      \* personas the operator selects among (prefix of PERSONAS)
MaxFaults == 1       \* provider, store and file-reader failures in one run
MaxEvents == 3       \* submissions, operator actions, tool requests and failures in one run
LiveEvents == 2      \* the same, in the runs checked for the release of the controls

\* ---------------------------------------------------------------- personas
PersonaKeys ==
  <<"CUA", "Lyra", "Kara", "Sophia", "Cecilia", "Guac", "Andie", "Dan", "Stan", "Dude">>

PERSONAS ==
  [k \in {PersonaKeys[i] : i \in 1..Len(PersonaKeys)} |->
     [name |-> k,
      role |-> <<"role", k>>,
      description |-> <<"description", k>>,
      tone |-> IF k = "CUA" THEN <<"null">> ELSE <<"tone", k>>]]

\* the entries of the <select> the operator can choose in this model
SelectablePersonas == {PersonaKeys[i] : i \in 1..MaxPersona}

Providers == {"gemini", "openai"}

\* names of properties every plain object inherits from Object.prototype
ObjectPrototypeProps == {"constructor"}

\* PERSONA_NAME_TO_KEY_MAP[name]: the persona key, "inherited" for a truthy
\* value found on the prototype chain, "undefined" otherwise
PERSONA_NAME_TO_KEY_MAP(name) ==
  IF \E k \in DOMAIN PERSONAS : PERSONAS[k].name = name
  THEN CHOOSE k \in DOMAIN PERSONAS : PERSONAS[k].name = name
  ELSE IF name \in ObjectPrototypeProps THEN "inherited" ELSE "undefined"

\* variant: the base persona gets the template as well
generateSystemPrompt_wrapsBase(personaKey) ==
  LET p == PERSONAS[personaKey] IN
  <<"You are ", p.name, ", a ">> \o p.role \o <<". ">> \o p.description
  \o <<" Your tone must be ">> \o p.tone
  \o <<". You can invoke other agents for tasks outside your expertise.">>

generateSystemPrompt(personaKey) ==
  LET p == PERSONAS[personaKey] IN
  IF personaKey = "CUA" THEN p.description
  ELSE <<"You are ", p.name, ", a ">> \o p.role \o <<". ">> \o p.description
       \o <<" Your tone must be ">> \o p.tone
       \o <<". You can invoke other agents for tasks outside your expertise.">>

\* variant: the caller stays in the list
availableAgents_keepsCaller(currentPersona) ==
  LET keys == SelectSeq(PersonaKeys, LAMBDA key : key # "CUA")
  IN [i \in 1..Len(keys) |-> PERSONAS[keys[i]].name]

\* Object.keys(PERSONAS).filter(..).map(key => PERSONAS[key].name)
availableAgents(currentPersona) ==
  LET keys == SelectSeq(PersonaKeys,
                        LAMBDA key : key # currentPersona /\ key # "CUA")
  IN [i \in 1..Len(keys) |-> PERSONAS[keys[i]].name]

\* getTools(currentPersona): for each provider the agentName enum of its
\* invokeAgent declaration; <<>> stands for tools being undefined
getTools(currentPersona) ==
  [gemini |-> availableAgents(currentPersona),
   openai |-> availableAgents(currentPersona)]

\* ------------------------------------------------------------------ strings
\* the characters of the names that occur in this model
CharsOf ==
  [n \in {"CUA", "cua", "Lyra", "lyra", "LYRA", "Kara", "kara", "Sophia", "Cecilia",
          "Guac", "Andie", "Dan", "Stan", "Dude", "Bob", "constructor", "undefined"} |->
     CASE n = "CUA" -> <<"C", "U", "A">>
       [] n = "cua" -> <<"c", "u", "a">>
       [] n = "Lyra" -> <<"L", "y", "r", "a">>
       [] n = "lyra" -> <<"l", "y", "r", "a">>
       [] n = "LYRA" -> <<"L", "Y", "R", "A">>
       [] n = "Kara" -> <<"K", "a", "r", "a">>
       [] n = "kara" -> <<"k", "a", "r", "a">>
       [] n = "Sophia" -> <<"S", "o", "p", "h", "i", "a">>
       [] n = "Cecilia" -> <<"C", "e", "c", "i", "l", "i", "a">>
       [] n = "Guac" -> <<"G", "u", "a", "c">>
       [] n = "Andie" -> <<"A", "n", "d", "i", "e">>
       [] n = "Dan" -> <<"D", "a", "n">>
       [] n = "Stan" -> <<"S", "t", "a", "n">>
       [] n = "Dude" -> <<"D", "u", "d", "e">>
       [] n = "Bob" -> <<"B", "o", "b">>
       [] n = "constructor" -> <<"c", "o", "n", "s", "t", "r", "u", "c", "t", "o", "r">>
       [] n = "undefined" -> <<"u", "n", "d", "e", "f", "i", "n", "e", "d">>]

LowerChar(c) ==
  CASE c = "A" -> "a"
    [] c = "B" -> "b"
    [] c = "C" -> "c"
    [] c = "D" -> "d"
    [] c = "G" -> "g"
    [] c = "K" -> "k"
    [] c = "L" -> "l"
    [] c = "R" -> "r"
    [] c = "S" -> "s"
    [] c = "U" -> "u"
    [] c = "Y" -> "y"
    [] OTHER -> c

\* String.prototype.toLowerCase, on the character sequence of a name
toLowerCase(n) == [i \in DOMAIN CharsOf[n] |-> LowerChar(CharsOf[n][i])]

\* String.prototype.trim on a token sequence: blanks are the " " tokens
RECURSIVE trimStart(_)
trimStart(s) == IF s # <<>> /\ Head(s) = " " THEN trimStart(Tail(s)) ELSE s

RECURSIVE trimEnd(_)
trimEnd(s) ==
  IF s # <<>> /\ s[Len(s)] = " " THEN trimEnd(SubSeq(s, 1, Len(s) - 1)) ELSE s

trim(s) == trimEnd(trimStart(s))

\* tokens matched by \w+
Words == DOMAIN CharsOf \cup {"hi"}

\* userInput.match(/^@(\w+)[, ]?(.*)/s): group 1 is the word after "@",
\* group 2 what follows one optional separator
mentionMatch(userInput) ==
  IF Len(userInput) >= 2 /\ userInput[1] = "@" /\ userInput[2] \in Words
  THEN [matched |-> TRUE,
        name |-> userInput[2],
        rest |-> IF Len(userInput) >= 3 /\ userInput[3] \in {",", " "}
                 THEN SubSeq(userInput, 4, Len(userInput))
                 ELSE SubSeq(userInput, 3, Len(userInput))]
  ELSE [matched |-> FALSE, name |-> "undefined", rest |-> <<>>]

\* Object.keys(PERSONA_NAME_TO_KEY_MAP).find(name => name.toLowerCase() ===
\* agentName.toLowerCase()); "undefined" when no key matches
FindAgentNameKey(agentName) ==
  LET hits == {k \in DOMAIN PERSONAS :
                 toLowerCase(PERSONAS[k].name) = toLowerCase(agentName)}
  IN IF hits = {} THEN "undefined" ELSE PERSONAS[CHOOSE k \in hits : TRUE].name

\* ----------------------------------------------------------------- messages
\* role-content form (OpenAIMessage); turn is the number of the turn that
\* appended the message (0 for the system message), kept for the properties
OpenAISystem(prompt) ==
  [role |-> "system", kind |-> "string", content |-> prompt, image |-> "none",
   tool_calls |-> <<>>, tool_call_id |-> "none", turn |-> 0]

\* userMessage.content: the bare text when the only part is text, the array
\* of parts otherwise
OpenAIUser(userInput, base64File, n) ==
  [role |-> "user",
   kind |-> IF userInput # <<>> /\ base64File = "none" THEN "string" ELSE "parts",
   content |-> userInput, image |-> base64File,
   tool_calls |-> <<>>, tool_call_id |-> "none", turn |-> n]

OpenAIAssistantCalls(toolCalls, n) ==
  [role |-> "assistant", kind |-> "null", content |-> <<>>, image |-> "none",
   tool_calls |-> toolCalls, tool_call_id |-> "none", turn |-> n]

OpenAITool(id, toolResult, n) ==
  [role |-> "tool", kind |-> "string", content |-> toolResult, image |-> "none",
   tool_calls |-> <<>>, tool_call_id |-> id, turn |-> n]

OpenAIAssistant(fullResponse, n) ==
  [role |-> "assistant", kind |-> "string", content |-> fullResponse,
   image |-> "none", tool_calls |-> <<>>, tool_call_id |-> "none", turn |-> n]

\* turn-based form (GeminiMessage) and its parts
TextPart(t) == [type |-> "text", text |-> t]
DataPart(f) == [type |-> "inlineData", data |-> f]
CallPart(c) == [type |-> "functionCall", call |-> c]
RespPart(name, toolResult) ==
  [type |-> "functionResponse", name |-> name, content |-> toolResult]

GeminiMsg(role, parts, n) == [role |-> role, parts |-> parts, turn |-> n]

\* contentRequest of the first round
GeminiUserParts(userInput, base64File) ==
  (IF userInput # <<>> THEN <<TextPart(userInput)>> ELSE <<>>)
  \o (IF base64File # "none" THEN <<DataPart(base64File)>> ELSE <<>>)

\* the model content the chat object records for a finished stream
GeminiModelParts(aggregatedText, functionCalls) ==
  (IF aggregatedText # <<>> THEN <<TextPart(aggregatedText)>> ELSE <<>>)
  \o [i \in 1..Len(functionCalls) |-> CallPart(functionCalls[i])]

\* ---------------------------------------------------------- result strings
NotFoundResult(agentName) == <<"Error: Agent '", agentName, "' not found.">>

InvocationErrorResult(agentName, errorMessage) ==
  <<"Error during invocation of ", agentName, ": ", errorMessage>>

ConsultingText(aggregatedText, agentName) ==
  aggregatedText \o <<"\n\n[Consulting with ", agentName, "...]">>

\* ------------------------------------------------------- tool-call payload
\* the arguments string of a streamed tool call is a sequence of JSON tokens
LB == <<"{">>
RB == <<"}">>
KV(k, v) == <<k, v>>

\* JSON.parse(call.function.arguments): ok is FALSE where it throws
JSONparse(arguments) ==
  LET n == Len(arguments)
      wellFormed == /\ n >= 2
                    /\ arguments[1] = LB
                    /\ arguments[n] = RB
                    /\ \A i \in 2..(n - 1) : Len(arguments[i]) = 2
      valueOf(k) == IF wellFormed /\ \E i \in 2..(n - 1) : arguments[i][1] = k
                    THEN arguments[CHOOSE i \in 2..(n - 1) : arguments[i][1] = k][2]
                    ELSE "undefined"
  IN [ok |-> wellFormed, agentName |-> valueOf("agentName"),
      prompt |-> valueOf("prompt")]

\* ------------------------------------------------------ scripted providers
\* a streamed chunk: a text delta (<<>> when the chunk has none) and the
\* function calls (turn-based binding) or tool-call deltas (role-content
\* binding) it carries
Chunk(text, calls) == [text |-> text, calls |-> calls]

FC(agentName, prompt) ==
  [name |-> "invokeAgent", agentName |-> agentName, prompt |-> prompt]

TC(index, id, name, arguments) ==
  [index |-> index, id |-> id, name |-> name, arguments |-> arguments]

GeminiScripts ==
  { <<Chunk(<<>>, <<>>), Chunk(<<"H">>, <<>>), Chunk(<<"i">>, <<>>)>>,
    <<Chunk(<<"T">>, <<>>), Chunk(<<>>, <<FC("Kara", "q"), FC("Lyra", "p")>>)>>,
    <<Chunk(<<>>, <<FC("Bob", "q")>>)>>,
    <<Chunk(<<>>, <<FC("constructor", "q")>>)>> }

OpenAIScripts ==
  { <<Chunk(<<>>, <<>>), Chunk(<<"H">>, <<>>), Chunk(<<"i">>, <<>>)>>,
    <<Chunk(<<"T">>, <<TC(0, "c1", "invokeAgent", <<LB, KV("agentName", "Kara")>>),
                       TC(1, "c2", "invokeAgent", <<LB, KV("agentName", "Lyra")>>)>>),
      Chunk(<<>>, <<TC(1, "undefined", "undefined", <<KV("prompt", "p"), RB>>),
                    TC(0, "undefined", "undefined", <<KV("prompt", "q"), RB>>)>>)>>,
    <<Chunk(<<>>, <<TC(0, "c1", "invokeAgent",
                       <<LB, KV("agentName", "Bob"), KV("prompt", "q"), RB>>)>>)>>,
    <<Chunk(<<>>, <<TC(1, "c1", "invokeAgent", <<LB, KV("prompt", "q"), RB>>)>>)>>,
    <<Chunk(<<>>, <<TC(0, "c1", "invokeAgent", <<LB, KV("agentName", "Kara")>>)>>)>> }

Scripts(provider) == IF provider = "gemini" THEN GeminiScripts ELSE OpenAIScripts

AsksForTool(script) == \E i \in 1..Len(script) : script[i].calls # <<>>

\* text of a delegated answer, and messages of the errors of the environment
DelegateAnswers == {<<"R">>}
ProviderErrorMessage == "provider failed"
StoreErrorMessage == "store failed"

\* what the operator types
RawInputs ==
  { <<"hi">>, <<"@", "Lyra", " ", "hi">>, <<"@", "lyra", " ", "hi">>,
    <<"@", "CUA", " ", "hi">> }

\* texts with a leading mention in each of its forms: a name that is no
\* persona, a mention without remainder, blanks around the text, a comma
\* after the name
MentionInputs ==
  RawInputs \cup
  { <<"@", "Bob", " ", "hi">>, <<"@", "Lyra">>, <<"@", "CUA", " ">>,
    <<" ", "@", "Lyra", ",", "hi", " ">>, <<"@", " ", "Lyra", " ", "hi">>,
    <<" ", "hi", " ">> }

\* -------------------------------------------------------------------- state
VARIABLES
  ai, openai,          \* whether the Gemini / OpenAI client was constructed
  modelSelector,       \* modelSelector.value
  personaSelector,     \* personaSelector.value
  controlsDisabled,    \* chatInput, submitButton and uploadButton .disabled
  stagedFile,          \* "none" or the staged file
  store,               \* the chat_sessions object store, by session key
  geminiChat,          \* the Chat object: [init, systemInstruction, history]
  openAIMessages,      \* the message array: [init, msgs]
  turn,                \* the locals and the position of handleChatSubmit
  pending,             \* continuations of handleSessionSwitch / handleClearHistory
  ghost                \* bookkeeping of the run, read by the properties only

vars == <<ai, openai, modelSelector, personaSelector, controlsDisabled, stagedFile,
          store, geminiChat, openAIMessages, turn, pending, ghost>>

SessionKey(provider, persona) == <<provider, persona>>

SessionKeys == {SessionKey(p, k) : p \in Providers, k \in SelectablePersonas}

NoRecord == [present |-> FALSE, history |-> <<>>]

\* the ChatSession written by store.put
ChatSession(history) == [present |-> TRUE, history |-> history]

\* variant: the store keeps only the messages of the operator and the model
saveHistory_dropsSystem(st, key, history) ==
  [st EXCEPT ![key] =
     ChatSession(SelectSeq(history, LAMBDA m : m.role # "system"))]

\* db.saveHistory(key, history): store.put({provider: key, history}) replaces
\* the record under its key path
saveHistory(st, key, history) == [st EXCEPT ![key] = ChatSession(history)]

\* db.getHistory(key): store.get(key), the record or undefined (NoRecord)
getHistory(st, key) == st[key]

\* variant: the delete leaves the record in place
clearHistory_keeps(st, key) == st

\* db.clearHistory(key): store.delete(key)
clearHistory(st, key) == [st EXCEPT ![key] = NoRecord]

Undefined == [init |-> FALSE, systemInstruction |-> <<>>, history |-> <<>>]

\* variant: the chat is created without the prior transcript
ChatsCreate_ignoresHistory(systemPrompt, history) ==
  [init |-> TRUE, systemInstruction |-> systemPrompt, history |-> <<>>]

\* ai.chats.create({config: {systemInstruction}, history})
ChatsCreate(systemPrompt, history) ==
  [init |-> TRUE, systemInstruction |-> systemPrompt, history |-> history]

UndefinedMessages == [init |-> FALSE, msgs |-> <<>>]

Messages(msgs) == [init |-> TRUE, msgs |-> msgs]

NoCall == [agentName |-> "none", prompt |-> <<>>, agentKey |-> "none",
           provider |-> "none", caller |-> "none", id |-> "none", name |-> "none",
           request |-> <<>>, tools |-> <<>>]

IdleTurn ==
  [pc |-> "idle", path |-> "none",
   selectedProvider |-> "none", selectedPersonaKey |-> "none",
   userInput |-> <<>>, fileToProcess |-> "none",
   messageToSend |-> <<>>, stream |-> <<>>,
   aggregatedText |-> <<>>, calls |-> <<>>, fullResponse |-> <<>>,
   call |-> NoCall, tools |-> <<>>, stale |-> FALSE, saveOk |-> TRUE,
   wrapper |-> "none", attached |-> FALSE, text |-> <<>>, error |-> <<>>,
   outcome |-> "none", cause |-> "none"]

InitGhost ==
  [turnNo |-> 0, opsDone |-> 0, failedTurns |-> {},
   saveCalls |-> 0, recAtSubmit |-> NoRecord, cleared |-> {},
   replaced |-> FALSE, toolRounds |-> 0, delegations |-> 0,
   invoked |-> <<>>, responses |-> 0, script |-> <<>>, requests |-> 0,
   delegateFailed |-> FALSE, saveFailed |-> FALSE,
   mention |-> "none", target |-> "none", resolved |-> "none", faults |-> 0,
   events |-> 0, typed |-> <<>>, subRequests |-> 0,
   opsAtSave |-> 0, loadsAtSave |-> 0, result |-> <<>>, errorEvents |-> 0]

\* resetChatState(provider, persona) applied to the two contexts
resetGemini(chat, provider, persona) ==
  IF provider = "gemini" /\ ai
  THEN ChatsCreate(generateSystemPrompt(persona), <<>>) ELSE chat

resetOpenAI(messages, provider, persona) ==
  IF provider = "openai" /\ openai
  THEN Messages(<<OpenAISystem(generateSystemPrompt(persona))>>) ELSE messages

\* initializeApp: the first provider option whose key is present
FirstAvailable == IF ai THEN "gemini" ELSE "openai"

\* the entry launchApp appends when neither key is set
NoKeysMessage == <<"No API keys found.">>

\* the state when launchApp has returned: on an empty store the first
\* handleSessionSwitch created a fresh session for the first persona; without
\* a key launchApp has shown its error, disabled the controls and returned
Init ==
  /\ ai \in BOOLEAN
  /\ openai \in BOOLEAN
  /\ modelSelector = FirstAvailable
  /\ personaSelector = PersonaKeys[1]
  /\ controlsDisabled = (~ai /\ ~openai)
  /\ stagedFile = "none"
  /\ store = [k \in SessionKeys |-> NoRecord]
  /\ geminiChat = resetGemini(Undefined, modelSelector, personaSelector)
  /\ openAIMessages = resetOpenAI(UndefinedMessages, modelSelector, personaSelector)
  /\ turn = IF ~ai /\ ~openai THEN [IdleTurn EXCEPT !.error = NoKeysMessage]
            ELSE IdleTurn
  /\ pending = <<>>
  /\ ghost = InitGhost

\* variant: the handlers are registered whatever the keys
Launched_registersAnyway == TRUE

\* launchApp registered the handlers (it returns before that without a key)
Launched == ai \/ openai

\* the values of the handlers' shared variables, threaded through the
\* synchronous stretches of handleChatSubmit
Cur ==
  [turn |-> turn, openAIMessages |-> openAIMessages, geminiChat |-> geminiChat,
   store |-> store, controlsDisabled |-> controlsDisabled, ghost |-> ghost]

Assign(s) ==
  /\ turn' = s.turn
  /\ openAIMessages' = s.openAIMessages
  /\ geminiChat' = s.geminiChat
  /\ store' = s.store
  /\ controlsDisabled' = s.controlsDisabled
  /\ ghost' = s.ghost

\* logOrchestrationEvent(message, type): an entry is appended to the
\* orchestration log; the run keeps the number of the entries of type error
\* that the handling of the current submission has appended
logOrchestrationEvent(s, type) ==
  IF type = "error" THEN [s EXCEPT !.ghost.errorEvents = @ + 1] ELSE s

\* ------------------------------------------------- handleChatSubmit, pieces
\* variant: the controls stay enabled while the turn runs
disableControls_forgets(s) == s

\* chatInput.disabled = true; submitButton.disabled = true; ...
disableControls(s) == [s EXCEPT !.controlsDisabled = TRUE]

\* variant: the answer accumulates over the rounds of the turn
assignFullResponse_accumulates(fullResponse, aggregatedText) ==
  fullResponse \o aggregatedText

\* fullResponse = aggregatedText, at the end of each round
assignFullResponse(fullResponse, aggregatedText) == aggregatedText

\* variant: the last call of the round is honoured
honouredCall_last(calls) == calls[Len(calls)]

\* const call = functionCalls[0] / toolCalls[0]
honouredCall(calls) == calls[1]

\* variant: the finally block leaves the controls disabled
finallyBlock_keepsDisabled(s) ==
  [s EXCEPT !.turn = [IdleTurn EXCEPT !.path = s.turn.path,
                                      !.selectedProvider = s.turn.selectedProvider,
                                      !.selectedPersonaKey = s.turn.selectedPersonaKey,
                                      !.wrapper = s.turn.wrapper,
                                      !.attached = s.turn.attached,
                                      !.text = s.turn.text,
                                      !.error = s.turn.error,
                                      !.outcome = s.turn.outcome,
                                      !.cause = s.turn.cause],
            !.ghost.invoked = <<>>, !.ghost.responses = 0,
            !.ghost.script = <<>>]

\* finally { chatInput.disabled = false; ... }
\* the locals of the handler go out of scope; what stays is what the page shows
finallyBlock(s) ==
  [s EXCEPT !.controlsDisabled = FALSE,
            !.turn = [IdleTurn EXCEPT !.path = s.turn.path,
                                      !.selectedProvider = s.turn.selectedProvider,
                                      !.selectedPersonaKey = s.turn.selectedPersonaKey,
                                      !.wrapper = s.turn.wrapper,
                                      !.attached = s.turn.attached,
                                      !.text = s.turn.text,
                                      !.error = s.turn.error,
                                      !.outcome = s.turn.outcome,
                                      !.cause = s.turn.cause],
            !.ghost.invoked = <<>>, !.ghost.responses = 0,
            !.ghost.script = <<>>]

\* variant: the catch block saves the transcript as it stands
catchBlock_savesHistory(s, errorMessage, cause) ==
  LET t == s.turn
      sessionKey == SessionKey(t.selectedProvider, t.selectedPersonaKey)
      currentHistory == IF t.selectedProvider = "gemini"
                        THEN s.geminiChat.history ELSE s.openAIMessages.msgs
  IN finallyBlock([logOrchestrationEvent(s, "error")
                     EXCEPT !.turn.wrapper = "removed",
                            !.turn.attached = FALSE,
                            !.turn.error = <<"Error: ", errorMessage>>,
                            !.turn.outcome = "Failed",
                            !.turn.cause = cause,
                            !.store = [@ EXCEPT ![sessionKey] =
                                                  ChatSession(currentHistory)],
                            !.ghost.saveCalls = @ + 1,
                            !.ghost.failedTurns =
                               IF cause = "store" THEN @
                               ELSE @ \cup {s.ghost.turnNo}])

\* catch (error) of the turn: the placeholder is removed, an error entry shown
catchBlock(s, errorMessage, cause) ==
  finallyBlock([logOrchestrationEvent(s, "error")
                  EXCEPT !.turn.wrapper = "removed",
                         !.turn.attached = FALSE,
                         !.turn.error = <<"Error: ", errorMessage>>,
                         !.turn.outcome = "Failed",
                         !.turn.cause = cause,
                         !.ghost.failedTurns =
                            IF cause = "store" THEN @ ELSE @ \cup {s.ghost.turnNo}])

\* catch (error) of the one-off delegation
oneOffCatchBlock(s, errorMessage) ==
  finallyBlock([logOrchestrationEvent(s, "error")
                  EXCEPT !.turn.wrapper = "removed",
                         !.turn.attached = FALSE,
                         !.turn.error = <<"Error during delegation: ", errorMessage>>,
                         !.turn.outcome = "Failed",
                         !.turn.cause = "other"])

\* await geminiChat.sendMessageStream(..) / await openai.chat.completions.create(..)
sendRequest(s) ==
  [s EXCEPT !.turn.pc = "request", !.turn.stale = FALSE,
            !.ghost.requests = @ + 1]

\* the final update of the placeholder and the save of the exported history
completeTurn(s, saveOk) ==
  LET t == s.turn
      sessionKey == SessionKey(t.selectedProvider, t.selectedPersonaKey)
      currentHistory == IF t.selectedProvider = "gemini"
                        THEN s.geminiChat.history ELSE s.openAIMessages.msgs
  IN [s EXCEPT !.turn.wrapper = "shown",
               !.turn.text = t.fullResponse,
               !.turn.outcome = "Completed",
               !.turn.pc = "saving",
               !.turn.saveOk = saveOk,
               !.store = IF saveOk
                         THEN saveHistory(@, sessionKey, currentHistory)
                         ELSE @,
               !.ghost.saveCalls = @ + 1,
               !.ghost.opsAtSave = s.ghost.opsDone,
               !.ghost.loadsAtSave = Len(pending),
               !.ghost.saveFailed = ~saveOk,
               !.ghost.faults = IF saveOk THEN @ ELSE @ + 1,
               !.ghost.events = IF saveOk THEN @ ELSE @ + 1]

\* variant: an error string returned by the delegation aborts the turn
foldBack_abortsOnError(s, toolResult) ==
  LET t == s.turn IN
  IF s.ghost.delegateFailed
  THEN catchBlock(s, "delegation failed", "other")
  ELSE sendRequest(
         IF t.selectedProvider = "gemini"
         THEN [s EXCEPT !.turn.messageToSend = <<RespPart(t.call.name, toolResult)>>,
                        !.ghost.responses = @ + 1]
         ELSE [s EXCEPT !.openAIMessages.msgs =
                          Append(@, OpenAITool(t.call.id, toolResult, s.ghost.turnNo)),
                        !.ghost.responses = @ + 1])

\* variant: the text of the round is folded back in place of the result
foldBack_sendsText(s, toolResult) ==
  LET t == s.turn IN
  sendRequest(
    IF t.selectedProvider = "gemini"
    THEN [s EXCEPT !.turn.messageToSend = <<RespPart(t.call.name, t.aggregatedText)>>,
                   !.ghost.responses = @ + 1]
    ELSE [s EXCEPT !.openAIMessages.msgs =
                     Append(@, OpenAITool(t.call.id, t.aggregatedText,
                                          s.ghost.turnNo)),
                   !.ghost.responses = @ + 1])

\* the tool response goes back to the provider and the loop sends again
foldBack(s, toolResult) ==
  LET t == s.turn IN
  sendRequest(
    IF t.selectedProvider = "gemini"
    THEN [s EXCEPT !.turn.messageToSend = <<RespPart(t.call.name, toolResult)>>,
                   !.ghost.responses = @ + 1]
    ELSE [s EXCEPT !.openAIMessages.msgs =
                     Append(@, OpenAITool(t.call.id, toolResult, s.ghost.turnNo)),
                   !.ghost.responses = @ + 1])

\* variant: the answer of a one-off delegation is appended to the transcript
returned_recordsOneOff(s, toolResult) ==
  IF s.turn.call.caller = "oneoff"
  THEN finallyBlock([s EXCEPT !.turn.wrapper = "shown", !.turn.text = toolResult,
                              !.turn.outcome = "Completed",
                              !.openAIMessages.msgs =
                                 Append(@, OpenAIAssistant(toolResult,
                                                           s.ghost.turnNo))])
  ELSE foldBack(s, toolResult)

\* executeInvokeAgent has returned toolResult to its caller
returned(s, toolResult) ==
  IF s.turn.call.caller = "oneoff"
  THEN finallyBlock([s EXCEPT !.turn.wrapper = "shown", !.turn.text = toolResult,
                              !.turn.outcome = "Completed",
                              !.ghost.result = toolResult])
  ELSE foldBack([s EXCEPT !.ghost.result = toolResult], toolResult)

\* variant: the catch of executeInvokeAgent reports a generic message
invocationCatch_hidesMessage(s, agentName, errorMessage) ==
  returned(logOrchestrationEvent([s EXCEPT !.ghost.delegateFailed = TRUE], "error"),
           InvocationErrorResult(agentName, "An unknown error occurred."))

\* catch (error) of executeInvokeAgent: the error is logged and its message
\* is returned inside a string
invocationCatch(s, agentName, errorMessage) ==
  returned(logOrchestrationEvent([s EXCEPT !.ghost.delegateFailed = TRUE], "error"),
           InvocationErrorResult(agentName, errorMessage))

\* the request executeInvokeAgent sends: the system prompt of the target and
\* the prompt as the only user turn, not streamed
delegateRequest(agentKey, prompt) ==
  <<[role |-> "system", content |-> generateSystemPrompt(agentKey)],
    [role |-> "user", content |-> prompt]>>

\* variant: the delegated request declares the tools of the target persona
executeInvokeAgent_passesTools(s, agentName, prompt, caller, call) ==
  LET agentKey == PERSONA_NAME_TO_KEY_MAP(agentName)
      provider == modelSelector
      s1 == [s EXCEPT !.turn.call =
                        [agentName |-> agentName, prompt |-> prompt,
                         agentKey |-> agentKey, provider |-> provider,
                         caller |-> caller, id |-> call.id, name |-> call.name,
                         request |-> <<>>, tools |-> <<>>],
                      !.ghost.invoked =
                        Append(@, [agentName |-> agentName, prompt |-> prompt]),
                      !.ghost.delegations = @ + 1,
                      !.ghost.resolved = agentKey]
  IN CASE agentKey = "undefined" ->
            returned([s1 EXCEPT !.ghost.delegateFailed = TRUE],
                     NotFoundResult(agentName))
       [] agentKey = "inherited" ->
            IF caller = "oneoff" THEN oneOffCatchBlock(s1, "TypeError")
            ELSE catchBlock(s1, "TypeError", "other")
       [] OTHER ->
            IF (provider = "gemini" /\ ai) \/ (provider = "openai" /\ openai)
            THEN [s1 EXCEPT !.turn.pc = "delegate",
                            !.turn.call.request = delegateRequest(agentKey, prompt),
                            !.turn.call.tools = getTools(agentKey).openai,
                            !.ghost.subRequests = @ + 1]
            ELSE returned(s1, <<"Error: No valid provider configured for sub-agent call.">>)

\* variant: the delegation is sent on the transcript of the session
executeInvokeAgent_reusesContext(s, agentName, prompt, caller, call) ==
  LET agentKey == PERSONA_NAME_TO_KEY_MAP(agentName)
      provider == modelSelector
      s1 == [s EXCEPT !.turn.call =
                        [agentName |-> agentName, prompt |-> prompt,
                         agentKey |-> agentKey, provider |-> provider,
                         caller |-> caller, id |-> call.id, name |-> call.name,
                         request |-> <<>>, tools |-> <<>>],
                      !.ghost.invoked =
                        Append(@, [agentName |-> agentName, prompt |-> prompt]),
                      !.ghost.delegations = @ + 1,
                      !.ghost.resolved = agentKey]
  IN CASE agentKey = "undefined" ->
            returned([s1 EXCEPT !.ghost.delegateFailed = TRUE],
                     NotFoundResult(agentName))
       [] agentKey = "inherited" ->
            IF caller = "oneoff" THEN oneOffCatchBlock(s1, "TypeError")
            ELSE catchBlock(s1, "TypeError", "other")
       [] OTHER ->
            IF (provider = "gemini" /\ ai) \/ (provider = "openai" /\ openai)
            THEN [s1 EXCEPT !.turn.pc = "delegate",
                            !.turn.call.request = delegateRequest(agentKey, prompt),
                            !.openAIMessages.msgs =
                               Append(@, OpenAIUser(prompt, "none", s.ghost.turnNo)),
                            !.ghost.subRequests = @ + 1]
            ELSE returned(s1, <<"Error: No valid provider configured for sub-agent call.">>)

\* executeInvokeAgent up to its first await; call carries id and name of the
\* tool call that is honoured
executeInvokeAgent(s, agentName, prompt, caller, call) ==
  LET agentKey == PERSONA_NAME_TO_KEY_MAP(agentName)
      provider == modelSelector
      s1 == [s EXCEPT !.turn.call =
                        [agentName |-> agentName, prompt |-> prompt,
                         agentKey |-> agentKey, provider |-> provider,
                         caller |-> caller, id |-> call.id, name |-> call.name,
                         request |-> <<>>, tools |-> <<>>],
                      !.ghost.invoked =
                        Append(@, [agentName |-> agentName, prompt |-> prompt]),
                      !.ghost.delegations = @ + 1,
                      !.ghost.resolved = agentKey]
  IN CASE agentKey = "undefined" ->
            returned([s1 EXCEPT !.ghost.delegateFailed = TRUE],
                     NotFoundResult(agentName))
       [] agentKey = "inherited" ->
            \* PERSONAS[agentKey] is undefined: persona.name throws
            IF caller = "oneoff" THEN oneOffCatchBlock(s1, "TypeError")
            ELSE catchBlock(s1, "TypeError", "other")
       [] OTHER ->
            IF (provider = "gemini" /\ ai) \/ (provider = "openai" /\ openai)
            THEN [s1 EXCEPT !.turn.pc = "delegate",
                            !.turn.call.request = delegateRequest(agentKey, prompt),
                            !.ghost.subRequests = @ + 1]
            ELSE returned(s1, <<"Error: No valid provider configured for sub-agent call.">>)

\* from the provider test to the first request of the turn
enterProvider(s, base64File, saveOk) ==
  LET t == s.turn IN
  IF t.selectedProvider = "gemini" /\ ai
  THEN IF ~s.geminiChat.init
       THEN catchBlock(s, "Gemini chat not initialized.", "other")
       ELSE sendRequest([s EXCEPT !.turn.tools =
                                    getTools(t.selectedPersonaKey).gemini,
                                  !.turn.messageToSend =
                                    GeminiUserParts(t.userInput, base64File)])
  ELSE IF t.selectedProvider = "openai" /\ openai
  THEN IF ~s.openAIMessages.init
       THEN catchBlock(s, "OpenAI chat not initialized.", "other")
       ELSE sendRequest([s EXCEPT !.turn.tools =
                                    getTools(t.selectedPersonaKey).openai,
                                  !.openAIMessages.msgs =
                                    Append(@, OpenAIUser(t.userInput, base64File,
                                                         s.ghost.turnNo))])
  ELSE completeTurn(s, saveOk)

\* toolCalls after the forEach over the tool-call deltas of one chunk; ok is
\* FALSE where toolCalls[tc.index] is undefined and the append throws
RECURSIVE applyDeltas(_, _)
applyDeltas(toolCalls, deltas) ==
  IF deltas = <<>> THEN [ok |-> TRUE, toolCalls |-> toolCalls]
  ELSE LET tc == Head(deltas)
           pushed == IF tc.index = Len(toolCalls)
                     THEN Append(toolCalls,
                                 [id |-> tc.id, type |-> "function",
                                  name |-> tc.name, arguments |-> <<>>])
                     ELSE toolCalls
       IN IF tc.arguments = <<>> THEN applyDeltas(pushed, Tail(deltas))
          ELSE IF tc.index < Len(pushed)
          THEN applyDeltas([pushed EXCEPT ![tc.index + 1].arguments =
                                            @ \o tc.arguments],
                           Tail(deltas))
          ELSE [ok |-> FALSE, toolCalls |-> pushed]

\* variant: the delta is put in front of the text
appendDelta_prepends(aggregatedText, text) == text \o aggregatedText

\* aggregatedText += text
appendDelta(aggregatedText, text) == aggregatedText \o text

\* the body of for await (const chunk of stream), turn-based binding
geminiChunk(s, chunk) ==
  LET aggregated == appendDelta(s.turn.aggregatedText, chunk.text) IN
  [s EXCEPT !.turn.aggregatedText = aggregated,
            !.turn.text = IF chunk.text # <<>> THEN aggregated ELSE @,
            !.turn.calls = @ \o chunk.calls,
            !.turn.stream = Tail(@)]

\* the body of for await (const chunk of stream), role-content binding
openAIChunk(s, chunk) ==
  LET aggregated == appendDelta(s.turn.aggregatedText, chunk.text)
      applied == applyDeltas(s.turn.calls, chunk.calls)
      s1 == [s EXCEPT !.turn.aggregatedText = aggregated,
                      !.turn.calls = applied.toolCalls,
                      !.turn.stream = Tail(@)]
  IN IF applied.ok THEN [s1 EXCEPT !.turn.text = aggregated]
     ELSE catchBlock(s1, "TypeError", "other")

\* after the stream of a round has ended, turn-based binding
geminiRoundEnd(s, saveOk) ==
  LET t == s.turn
      recorded == <<GeminiMsg("user", t.messageToSend, s.ghost.turnNo),
                    GeminiMsg("model", GeminiModelParts(t.aggregatedText, t.calls),
                              s.ghost.turnNo)>>
      s1 == [s EXCEPT !.turn.fullResponse =
                        assignFullResponse(t.fullResponse, t.aggregatedText),
                      !.geminiChat.history = IF t.stale THEN @ ELSE @ \o recorded]
  IN IF Len(t.calls) > 0
     THEN LET call == honouredCall(t.calls) IN
          executeInvokeAgent(
            [s1 EXCEPT !.turn.text = ConsultingText(t.aggregatedText, call.agentName)],
            call.agentName, <<call.prompt>>, "tool",
            [id |-> "none", name |-> call.name])
     ELSE completeTurn(s1, saveOk)

\* after the stream of a round has ended, role-content binding
openAIRoundEnd(s, saveOk) ==
  LET t == s.turn
      n == s.ghost.turnNo
      s1 == [s EXCEPT !.turn.fullResponse =
                        assignFullResponse(t.fullResponse, t.aggregatedText)]
  IN IF Len(t.calls) > 0
     THEN LET s2 == [s1 EXCEPT !.openAIMessages.msgs =
                                 Append(@, OpenAIAssistantCalls(t.calls, n))]
              call == honouredCall(t.calls)
              args == JSONparse(call.arguments)
          IN IF ~args.ok THEN catchBlock(s2, "SyntaxError", "other")
             ELSE IF args.prompt = "undefined" THEN catchBlock(s2, "TypeError", "other")
             ELSE executeInvokeAgent(
                    [s2 EXCEPT !.turn.text =
                                 ConsultingText(t.aggregatedText, args.agentName)],
                    args.agentName, <<args.prompt>>, "tool",
                    [id |-> call.id, name |-> call.name])
     ELSE completeTurn([s1 EXCEPT !.openAIMessages.msgs =
                                    Append(@, OpenAIAssistant(s1.turn.fullResponse, n))],
                       saveOk)

\* the run has room for one more event of the environment
CanAct == ghost.events < MaxEvents

\* a call can still reject
CanFail == ghost.faults < MaxFaults /\ CanAct

\* outcomes of a request to the store: a failure is possible while the run
\* has failures left
StoreOutcomes == IF CanFail THEN BOOLEAN ELSE {TRUE}

fault(s) == [s EXCEPT !.ghost.faults = @ + 1, !.ghost.events = @ + 1]

\* ---------------------------------------------------------------- actions
\* variant: a mention is acted on also when a file is staged
parseSubmission_ignoresFile(raw) ==
  LET trimmed == trim(raw)
      mentionMatched == mentionMatch(trimmed)
      agentName == mentionMatched.name
      promptForAgent == trim(mentionMatched.rest)
      agentNameKey == IF mentionMatched.matched
                      THEN FindAgentNameKey(agentName) ELSE "undefined"
      handled == agentNameKey # "undefined" /\ promptForAgent # <<>>
      targetPersonaKey == PERSONA_NAME_TO_KEY_MAP(agentNameKey)
      oneOff == handled /\ targetPersonaKey # personaSelector
  IN [trimmed |-> trimmed, agentName |-> agentName,
      promptForAgent |-> promptForAgent, handled |-> handled,
      targetPersonaKey |-> targetPersonaKey, oneOff |-> oneOff,
      userInput |-> IF handled /\ ~oneOff THEN promptForAgent ELSE trimmed]

\* variant: a mention of the active persona stays in the input
parseSubmission_keepsMention(raw) ==
  LET trimmed == trim(raw)
      mentionMatched == mentionMatch(trimmed)
      agentName == mentionMatched.name
      promptForAgent == trim(mentionMatched.rest)
      agentNameKey == IF mentionMatched.matched /\ stagedFile = "none"
                      THEN FindAgentNameKey(agentName) ELSE "undefined"
      handled == agentNameKey # "undefined" /\ promptForAgent # <<>>
      targetPersonaKey == PERSONA_NAME_TO_KEY_MAP(agentNameKey)
      oneOff == handled /\ targetPersonaKey # personaSelector
  IN [trimmed |-> trimmed, agentName |-> agentName,
      promptForAgent |-> promptForAgent, handled |-> handled,
      targetPersonaKey |-> targetPersonaKey, oneOff |-> oneOff,
      userInput |-> trimmed]

\* handleChatSubmit from the trim of the input to the test of the mention:
\* what the handler does with the text typed
parseSubmission(raw) ==
  LET trimmed == trim(raw)
      mentionMatched == mentionMatch(trimmed)
      agentName == mentionMatched.name
      promptForAgent == trim(mentionMatched.rest)
      agentNameKey == IF mentionMatched.matched /\ stagedFile = "none"
                      THEN FindAgentNameKey(agentName) ELSE "undefined"
      handled == agentNameKey # "undefined" /\ promptForAgent # <<>>
      targetPersonaKey == PERSONA_NAME_TO_KEY_MAP(agentNameKey)
      oneOff == handled /\ targetPersonaKey # personaSelector
  IN [trimmed |-> trimmed, agentName |-> agentName,
      promptForAgent |-> promptForAgent, handled |-> handled,
      targetPersonaKey |-> targetPersonaKey, oneOff |-> oneOff,
      userInput |-> IF handled /\ ~oneOff THEN promptForAgent ELSE trimmed]

\* if (!userInput && !stagedFile) return
returnsAtOnce(raw) == parseSubmission(raw).userInput = <<>> /\ stagedFile = "none"

\* handleChatSubmit up to its first await, for the text typed
handleChatSubmit(raw, saveOk) ==
  LET p == parseSubmission(raw)
      g == [ghost EXCEPT !.turnNo = @ + 1, !.events = @ + 1, !.saveCalls = 0,
                         !.recAtSubmit =
                            store[SessionKey(modelSelector, personaSelector)],
                         !.cleared = {}, !.replaced = FALSE,
                         !.toolRounds = 0, !.delegations = 0,
                         !.invoked = <<>>, !.responses = 0,
                         !.script = <<>>, !.requests = 0,
                         !.delegateFailed = FALSE, !.saveFailed = FALSE,
                         !.resolved = "none",
                         !.mention = IF p.oneOff THEN p.agentName ELSE "none",
                         !.target = IF p.oneOff THEN p.targetPersonaKey ELSE "none",
                         !.typed = raw, !.subRequests = 0, !.result = <<>>,
                         !.errorEvents = 0]
      started == disableControls([Cur EXCEPT !.ghost = g])
  IN IF p.oneOff
     THEN executeInvokeAgent(
            [started EXCEPT !.turn =
               [IdleTurn EXCEPT !.path = "oneoff", !.userInput = p.trimmed,
                                !.wrapper = "thinking", !.attached = TRUE]],
            p.agentName, p.promptForAgent, "oneoff",
            [id |-> "none", name |-> "none"])
     ELSE LET t == [IdleTurn EXCEPT !.path = "normal",
                                    !.selectedProvider = modelSelector,
                                    !.selectedPersonaKey = personaSelector,
                                    !.userInput = p.userInput,
                                    !.fileToProcess = stagedFile,
                                    !.wrapper = "thinking",
                                    !.attached = TRUE]
          IN IF stagedFile # "none"
             THEN [started EXCEPT !.turn = [t EXCEPT !.pc = "file"]]
             ELSE enterProvider([started EXCEPT !.turn = t], "none", saveOk)

\* the submit event of chatForm with one of the texts of inputs typed; it
\* cannot fire while the input and the submit button are disabled
SubmitOf(inputs) ==
  /\ Launched
  /\ ~controlsDisabled
  /\ ghost.turnNo < MaxTurns
  /\ CanAct
  /\ \E raw \in inputs, saveOk \in StoreOutcomes :
       IF returnsAtOnce(raw)
       THEN UNCHANGED vars
       ELSE /\ Assign(handleChatSubmit(raw, saveOk))
            /\ stagedFile' = IF parseSubmission(raw).oneOff THEN stagedFile
                              ELSE "none"
            /\ UNCHANGED <<ai, openai, modelSelector, personaSelector, pending>>

Submit == SubmitOf(RawInputs)

Frame == UNCHANGED <<ai, openai, modelSelector, personaSelector, stagedFile, pending>>

\* await fileToBase64(fileToProcess) settles
FileDone ==
  /\ turn.pc = "file"
  /\ \E ok \in StoreOutcomes, saveOk \in StoreOutcomes :
       Assign(IF ok THEN enterProvider(Cur, turn.fileToProcess, saveOk)
              ELSE catchBlock(fault(Cur), "Invalid file format.", "other"))
  /\ Frame

\* the provider accepts the request and starts to stream; it calls a tool
\* only when the request declares one
RequestOk ==
  /\ turn.pc = "request"
  /\ \E script \in Scripts(turn.selectedProvider) :
       /\ AsksForTool(script) => turn.tools # <<>>
       /\ AsksForTool(script) => ghost.toolRounds < MaxRounds /\ CanAct
       /\ Assign([Cur EXCEPT !.turn.pc = "stream",
                             !.turn.stream = script,
                             !.turn.aggregatedText = <<>>,
                             !.turn.calls = <<>>,
                             !.ghost.toolRounds =
                                IF AsksForTool(script) THEN @ + 1 ELSE @,
                             !.ghost.events =
                                IF AsksForTool(script) THEN @ + 1 ELSE @,
                             !.ghost.invoked = <<>>,
                             !.ghost.responses = 0,
                             !.ghost.script = script])
  /\ Frame

\* the provider call rejects
RequestFail ==
  /\ turn.pc = "request"
  /\ CanFail
  /\ Assign(catchBlock(fault(Cur), ProviderErrorMessage, "provider"))
  /\ Frame

\* one chunk of the stream arrives
StreamChunk ==
  /\ turn.pc = "stream"
  /\ turn.stream # <<>>
  /\ Assign(IF turn.selectedProvider = "gemini"
            THEN geminiChunk(Cur, Head(turn.stream))
            ELSE openAIChunk(Cur, Head(turn.stream)))
  /\ Frame

\* the stream fails while it is iterated
StreamFail ==
  /\ turn.pc = "stream"
  /\ CanFail
  /\ Assign(catchBlock(fault(Cur), ProviderErrorMessage, "provider"))
  /\ Frame

\* the stream ends
StreamEnd ==
  /\ turn.pc = "stream"
  /\ turn.stream = <<>>
  /\ \E saveOk \in StoreOutcomes :
       Assign(IF turn.selectedProvider = "gemini"
              THEN geminiRoundEnd(Cur, saveOk)
              ELSE openAIRoundEnd(Cur, saveOk))
  /\ Frame

\* the provider call of executeInvokeAgent resolves
DelegateReturn ==
  /\ turn.pc = "delegate"
  /\ \E answer \in DelegateAnswers : Assign(returned(Cur, answer))
  /\ Frame

\* the provider call of executeInvokeAgent rejects: its catch returns a string
DelegateFail ==
  /\ turn.pc = "delegate"
  /\ CanFail
  /\ Assign(invocationCatch(fault(Cur), turn.call.agentName, ProviderErrorMessage))
  /\ Frame

\* await db.saveHistory(..) settles
SaveDone ==
  /\ turn.pc = "saving"
  /\ Assign(IF turn.saveOk THEN finallyBlock(Cur)
            ELSE catchBlock(Cur, StoreErrorMessage, "store"))
  /\ Frame

\* handleSessionSwitch up to await db.getHistory(sessionKey)
sessionSwitchStart ==
  [kind |-> "switch", selectedProvider |-> modelSelector',
   selectedPersona |-> personaSelector',
   session |-> getHistory(store', SessionKey(modelSelector', personaSelector'))]

\* the operator picks another provider
ModelChange ==
  /\ Launched
  /\ ghost.opsDone < MaxOps
  /\ CanAct
  /\ \E v \in Providers \ {modelSelector} :
       /\ (v = "gemini" => ai) /\ (v = "openai" => openai)
       /\ modelSelector' = v
       /\ UNCHANGED <<personaSelector, store>>
       /\ pending' = Append(pending, sessionSwitchStart)
  /\ turn' = [turn EXCEPT !.attached = FALSE]
  /\ ghost' = [ghost EXCEPT !.opsDone = @ + 1, !.events = @ + 1]
  /\ UNCHANGED <<ai, openai, controlsDisabled, stagedFile, geminiChat, openAIMessages>>

\* the operator picks another persona
PersonaChange ==
  /\ Launched
  /\ ghost.opsDone < MaxOps
  /\ CanAct
  /\ \E v \in SelectablePersonas \ {personaSelector} :
       /\ personaSelector' = v
       /\ UNCHANGED <<modelSelector, store>>
       /\ pending' = Append(pending, sessionSwitchStart)
  /\ turn' = [turn EXCEPT !.attached = FALSE]
  /\ ghost' = [ghost EXCEPT !.opsDone = @ + 1, !.events = @ + 1]
  /\ UNCHANGED <<ai, openai, controlsDisabled, stagedFile, geminiChat, openAIMessages>>

RemoveAt(q, i) == SubSeq(q, 1, i - 1) \o SubSeq(q, i + 1, Len(q))

\* handleSessionSwitch after await db.getHistory(sessionKey)
SwitchFinish ==
  \E i \in 1..Len(pending) :
    LET p == pending[i]
        hasMeaningfulHistory ==
          p.session.present
          /\ \E j \in 1..Len(p.session.history) : p.session.history[j].role = "user"
        toGemini == p.selectedProvider = "gemini" /\ ai
        toOpenAI == p.selectedProvider = "openai" /\ openai
    IN /\ p.kind = "switch"
       /\ pending' = RemoveAt(pending, i)
       /\ geminiChat' =
            IF hasMeaningfulHistory
            THEN IF toGemini
                 THEN ChatsCreate(generateSystemPrompt(p.selectedPersona),
                                  p.session.history)
                 ELSE geminiChat
            ELSE resetGemini(geminiChat, p.selectedProvider, p.selectedPersona)
       /\ openAIMessages' =
            IF hasMeaningfulHistory
            THEN IF ~toGemini /\ toOpenAI
                 THEN Messages(p.session.history)
                 ELSE openAIMessages
            ELSE resetOpenAI(openAIMessages, p.selectedProvider,
                             p.selectedPersona)
       /\ turn' = [turn EXCEPT !.stale = @ \/ toGemini, !.attached = FALSE]
       /\ ghost' = [ghost EXCEPT !.replaced = @ \/ turn.pc \notin {"idle", "saving"}]
       /\ UNCHANGED <<ai, openai, modelSelector, personaSelector, controlsDisabled,
                      stagedFile, store>>

\* handleClearHistory, confirmed, up to await db.clearHistory(sessionKey)
ClearStart ==
  /\ Launched
  /\ ghost.opsDone < MaxOps
  /\ CanAct
  /\ LET sessionKey == SessionKey(modelSelector, personaSelector) IN
       /\ store' = clearHistory(store, sessionKey)
       /\ pending' = Append(pending,
                            [kind |-> "clear", selectedProvider |-> modelSelector,
                             selectedPersona |-> personaSelector,
                             session |-> NoRecord])
       /\ ghost' = [ghost EXCEPT !.opsDone = @ + 1, !.events = @ + 1,
                                 !.cleared = @ \cup {sessionKey}]
  /\ UNCHANGED <<ai, openai, modelSelector, personaSelector, controlsDisabled,
                 stagedFile, geminiChat, openAIMessages, turn>>

\* handleClearHistory after await db.clearHistory: it calls handleSessionSwitch
ClearContinue ==
  \E i \in 1..Len(pending) :
    /\ pending[i].kind = "clear"
    /\ UNCHANGED <<modelSelector, personaSelector, store>>
    /\ pending' = [pending EXCEPT ![i] = sessionSwitchStart]
    /\ turn' = [turn EXCEPT !.attached = FALSE]
    /\ UNCHANGED <<ai, openai, controlsDisabled, stagedFile, geminiChat,
                   openAIMessages, ghost>>

\* handleFileSelect: a file is chosen through the upload button
StageFile ==
  /\ Launched
  /\ ~controlsDisabled
  /\ stagedFile = "none"
  /\ ghost.opsDone < MaxOps
  /\ CanAct
  /\ stagedFile' = "f1"
  /\ ghost' = [ghost EXCEPT !.opsDone = @ + 1, !.events = @ + 1]
  /\ UNCHANGED <<ai, openai, modelSelector, personaSelector, controlsDisabled,
                 store, geminiChat, openAIMessages, turn, pending>>

Next ==
  \/ Submit
  \/ FileDone
  \/ RequestOk
  \/ RequestFail
  \/ StreamChunk
  \/ StreamFail
  \/ StreamEnd
  \/ DelegateReturn
  \/ DelegateFail
  \/ SaveDone
  \/ ModelChange
  \/ PersonaChange
  \/ SwitchFinish
  \/ ClearStart
  \/ ClearContinue
  \/ StageFile

Spec == Init /\ [][Next]_vars

\* ------------------------------------------------------------- properties
\* the chunks of the current round that have arrived
Received == SubSeq(ghost.script, 1, Len(ghost.script) - Len(turn.stream))

\* the text deltas of a sequence of chunks, in emission order
RECURSIVE ConcatText(_)
ConcatText(chunks) ==
  IF chunks = <<>> THEN <<>> ELSE Head(chunks).text \o ConcatText(Tail(chunks))

\* the calls or tool-call deltas of a sequence of chunks, in emission order
RECURSIVE AllCalls(_)
AllCalls(chunks) ==
  IF chunks = <<>> THEN <<>> ELSE Head(chunks).calls \o AllCalls(Tail(chunks))

\* the argument fragments that carry one index, in arrival order
RECURSIVE ArgumentsOfIndex(_, _)
ArgumentsOfIndex(deltas, index) ==
  IF deltas = <<>> THEN <<>>
  ELSE (IF Head(deltas).index = index THEN Head(deltas).arguments ELSE <<>>)
       \o ArgumentsOfIndex(Tail(deltas), index)

\* agent name and prompt of the first tool call a script emits
FirstCallOf(provider, script) ==
  IF provider = "gemini"
  THEN [agentName |-> AllCalls(script)[1].agentName,
        prompt |-> <<AllCalls(script)[1].prompt>>]
  ELSE LET args == JSONparse(ArgumentsOfIndex(AllCalls(script), 0))
       IN [agentName |-> args.agentName, prompt |-> <<args.prompt>>]

\* number of distinct tool calls a script emits
CallsIn(provider, script) ==
  IF provider = "gemini" THEN Len(AllCalls(script))
  ELSE Cardinality({AllCalls(script)[i].index : i \in 1..Len(AllCalls(script))})

TurnKey == SessionKey(turn.selectedProvider, turn.selectedPersonaKey)

NormalTurn == turn.path = "normal"

C2_NoFailedTurnMessagePersisted ==
  \A k \in SessionKeys :
    \A i \in 1..Len(store[k].history) :
      store[k].history[i].turn \notin ghost.failedTurns

\* C3: the conversation context is never replaced by a session switch or a
\* clear between the submission of a turn and its Completed or Failed
C3_ContextStableInTurn == ~ghost.replaced

\* C4: while a turn (normal or one-off) is in progress no second
\* handleChatSubmit starts
C4_OneTurnAtATime ==
  [][turn.pc # "idle" => ghost.turnNo' = ghost.turnNo]_vars

\* a one-off delegation is waiting for its provider call
C4_Witness ==
  turn.pc = "delegate" /\ turn.path = "oneoff" /\ controlsDisabled

IsErrorResult(toolResult) ==
  \/ toolResult = NotFoundResult(turn'.call.agentName)
  \/ toolResult = InvocationErrorResult(turn'.call.agentName, ProviderErrorMessage)

C6_SaveFailureIsNonFatal ==
  (NormalTurn /\ turn.pc = "idle" /\ ghost.saveFailed) =>
    /\ turn.wrapper = "shown"
    /\ turn.outcome = "Completed"
    /\ turn.error = <<>>

\* C7: when the stream of a round without tool call ends, the turn is
\* Completed, it has run one delegation for each earlier round, all of which
\* asked for a tool, and it displays the text of this last round
C7_ToolLoopTerminates ==
  [][(/\ NormalTurn /\ turn.pc = "stream" /\ turn.stream = <<>>
      /\ ~AsksForTool(ghost.script)
      /\ turn'.pc # "stream" /\ turn'.cause # "provider") =>
       /\ turn'.pc = "saving"
       /\ turn'.outcome = "Completed"
       /\ ghost.delegations' = ghost.toolRounds
       /\ ghost.requests' = ghost.toolRounds + 1
       /\ turn'.text = ConcatText(ghost.script)]_vars

\* a turn completed after one delegation round, on the turn-based binding
C7_Witness ==
  /\ NormalTurn /\ turn.pc = "saving" /\ turn.outcome = "Completed"
  /\ turn.selectedProvider = "gemini"
  /\ ghost.toolRounds = 1 /\ ghost.delegations = 1
  /\ turn.text = <<"H", "i">>

\* C8: in a round in which the provider asked for tools, executeInvokeAgent is
\* called once, with agent name and prompt of the first tool call, and one
\* tool response is returned before the next request
C8_OnlyFirstCallHonoured ==
  (/\ NormalTurn /\ turn.pc \in {"delegate", "request"}
   /\ ghost.script # <<>> /\ AsksForTool(ghost.script)) =>
    /\ ghost.invoked = <<FirstCallOf(turn.selectedProvider, ghost.script)>>
    /\ ghost.responses = IF turn.pc = "request" THEN 1 ELSE 0

\* the next request follows a round in which the provider emitted two calls
C8_Witness ==
  /\ NormalTurn /\ turn.pc = "request" /\ ghost.script # <<>>
  /\ CallsIn(turn.selectedProvider, ghost.script) = 2
  /\ ghost.responses = 1

\* C9 as claimed: after each chunk the display buffer is the concatenation of
\* the deltas received so far in the round
C9_DisplayIsConcatenationAfterEachChunk ==
  (NormalTurn /\ turn.pc = "stream" /\ Len(Received) >= 1) =>
    turn.text = ConcatText(Received)

\* C9 amended: the display buffer is the concatenation of the deltas received
\* so far after every chunk on the role-content binding and, on the
\* turn-based binding, from the first chunk of the round that carries text;
\* at the end of the final round it is the concatenation of that round's deltas
C9_DisplayIsConcatenationOnceTextArrived ==
  /\ (/\ NormalTurn /\ turn.pc = "stream" /\ Len(Received) >= 1
      /\ (turn.selectedProvider = "openai" \/ ConcatText(Received) # <<>>)) =>
       turn.text = ConcatText(Received)
  /\ (NormalTurn /\ turn.pc = "saving") => turn.text = ConcatText(ghost.script)

\* two deltas have been displayed in their order, on the turn-based binding
C9_Witness ==
  /\ NormalTurn /\ turn.pc = "stream" /\ turn.selectedProvider = "gemini"
  /\ Len(Received) = 3 /\ turn.text = <<"H", "i">>

\* C10: a mention that differs from a persona's name only in letter case runs
\* the one-off delegation against that persona
C10_MentionIsCaseInsensitive ==
  turn.path = "oneoff" => ghost.resolved = ghost.target

\* ---------------------------------------------------------------- mentions
\* the step is a submission that starts a turn
SubmitStep == ghost'.turnNo = ghost.turnNo + 1

\* raw is "@P remainder" for the active persona P, in any letter case, with a
\* remainder that is not blank
SelfMention(raw) ==
  LET mentionMatched == mentionMatch(trim(raw)) IN
  /\ mentionMatched.matched
  /\ toLowerCase(mentionMatched.name) = toLowerCase(PERSONAS[personaSelector].name)
  /\ trim(mentionMatched.rest) # <<>>

Remainder(raw) == trim(mentionMatch(trim(raw)).rest)

\* the step left the turn, the transcripts and the store as r has them
SameEffect(r) ==
  /\ turn' = r.turn
  /\ openAIMessages' = r.openAIMessages
  /\ geminiChat' = r.geminiChat
  /\ store' = r.store

\* C11 as claimed: submitting "@P remainder" with P the active persona takes
\* the normal path and has the effect of submitting the remainder alone
C11_SelfMentionIsPlainInput ==
  [][(SubmitStep /\ SelfMention(ghost'.typed)) =>
       /\ turn'.path = "normal"
       /\ \E saveOk \in BOOLEAN :
            SameEffect(handleChatSubmit(Remainder(ghost'.typed), saveOk))]_vars

\* C11 amended: the same, when no file is staged and the remainder is not
\* itself a mention that the handler acts on
C11_SelfMentionIsPlainInputWithoutFile ==
  [][(/\ SubmitStep /\ SelfMention(ghost'.typed)
      /\ stagedFile = "none"
      /\ ~parseSubmission(Remainder(ghost'.typed)).handled) =>
       /\ turn'.path = "normal"
       /\ \E saveOk \in BOOLEAN :
            SameEffect(handleChatSubmit(Remainder(ghost'.typed), saveOk))]_vars

\* a mention of the active persona was stripped and the remainder sent
C11_Witness ==
  /\ NormalTurn /\ turn.pc = "request"
  /\ ghost.typed = <<"@", "CUA", " ", "hi">>
  /\ turn.selectedPersonaKey = "CUA"
  /\ turn.fileToProcess = "none"
  /\ turn.userInput = <<"hi">>

\* a step of the one-off mention path: its submission, or the return of its
\* delegation
OneOffStep ==
  \/ SubmitStep /\ turn'.path = "oneoff"
  \/ turn.path = "oneoff" /\ turn.pc = "delegate" /\ turn'.pc = "idle"

\* C12: the one-off mention path appends no message to either transcript,
\* changes no record of the store, sends no streaming request, runs no tool
\* round and calls saveHistory zero times, whether its delegation succeeds or
\* fails
C12_OneOffLeavesSessionAlone ==
  [][OneOffStep =>
       /\ UNCHANGED <<openAIMessages, geminiChat, store>>
       /\ ghost'.saveCalls = 0
       /\ ghost'.requests = 0
       /\ ghost'.toolRounds = 0]_vars

\* a one-off delegation has shown its result on a session with a stored record
C12_Witness ==
  /\ turn.path = "oneoff" /\ turn.pc = "idle" /\ turn.wrapper = "shown"
  /\ ghost.delegations = 1 /\ turn.text = <<"R">>
  /\ store[SessionKey(modelSelector, personaSelector)].present

\* ------------------------------------------------------ delegation executor
\* the step calls executeInvokeAgent
InvokeStep ==
  ghost'.delegations = (IF SubmitStep THEN 0 ELSE ghost.delegations) + 1

\* the step is the return of the provider call of executeInvokeAgent
ReturnStep == turn.pc = "delegate" /\ turn'.pc # "delegate"

\* agent name and prompt of the call the step makes
Invoked == ghost'.invoked[Len(ghost'.invoked)]

\* the agent name of that call, also when the turn ended within the step
InvokedName ==
  IF ghost'.invoked # <<>> THEN Invoked.agentName
  ELSE IF turn'.path = "oneoff" THEN ghost'.mention ELSE "undefined"

\* name is the display name of a persona
IsDisplayName(name) == \E k \in DOMAIN PERSONAS : PERSONAS[k].name = name

PersonaNamed(name) == CHOOSE k \in DOMAIN PERSONAS : PERSONAS[k].name = name

IsPrefix(a, b) == Len(a) <= Len(b) /\ SubSeq(b, 1, Len(a)) = a

\* C13 as claimed: every invocation of executeInvokeAgent sends exactly one
\* request and changes neither the store nor, on the one-off path, a transcript
C13_EveryInvocationSendsOneRequest ==
  [][InvokeStep =>
       /\ store' = store
       /\ ghost'.subRequests = (IF SubmitStep THEN 0 ELSE ghost.subRequests) + 1
       /\ turn'.path = "oneoff" => UNCHANGED <<openAIMessages, geminiChat>>]_vars

\* C13 amended: an invocation of executeInvokeAgent for the display name of a
\* persona sends one request,
\* made of the system prompt of that persona and the given prompt as the only
\* user turn; no step of an invocation changes the store, and the transcripts
\* change by nothing but what the tool loop itself appends (the recorded round
\* before the call, the tool message after it)
C13_DelegationIsStateless ==
  [][/\ InvokeStep =>
          /\ store' = store
          /\ ghost'.subRequests =
                (IF SubmitStep THEN 0 ELSE ghost.subRequests)
                + (IF IsDisplayName(InvokedName) THEN 1 ELSE 0)
          /\ IsDisplayName(InvokedName) =>
                /\ turn'.pc = "delegate"
                /\ turn'.call.request =
                      <<[role |-> "system",
                         content |-> generateSystemPrompt(
                                       PersonaNamed(InvokedName))],
                        [role |-> "user", content |-> Invoked.prompt]>>
          /\ IF turn'.path = "oneoff"
             THEN UNCHANGED <<openAIMessages, geminiChat>>
             ELSE /\ IsPrefix(openAIMessages.msgs, openAIMessages'.msgs)
                  /\ \A i \in Len(openAIMessages.msgs) + 1 ..
                                Len(openAIMessages'.msgs) :
                        \/ openAIMessages'.msgs[i].role = "tool"
                        \/ /\ openAIMessages'.msgs[i].role = "assistant"
                           /\ openAIMessages'.msgs[i].tool_calls # <<>>
                  /\ IsPrefix(geminiChat.history, geminiChat'.history)
                  /\ Len(geminiChat'.history) <= Len(geminiChat.history) + 2
     /\ ReturnStep =>
          /\ store' = store
          /\ geminiChat' = geminiChat
          /\ ghost'.subRequests = ghost.subRequests
          /\ IF turn.path = "normal" /\ turn.selectedProvider = "openai"
             THEN /\ Len(openAIMessages'.msgs) = Len(openAIMessages.msgs) + 1
                  /\ IsPrefix(openAIMessages.msgs, openAIMessages'.msgs)
                  /\ openAIMessages'.msgs[Len(openAIMessages'.msgs)].role = "tool"
             ELSE openAIMessages' = openAIMessages]_vars

\* a tool call of the provider is being answered by Kara
C13_Witness ==
  /\ NormalTurn /\ turn.pc = "delegate" /\ turn.call.caller = "tool"
  /\ ghost.subRequests = 1
  /\ turn.call.request = <<[role |-> "system",
                            content |-> generateSystemPrompt("Kara")],
                           [role |-> "user", content |-> <<"q">>]>>

\* the result string carries the "not found" marker
HasNotFoundMarker(result) ==
  /\ Len(result) = 3 /\ result[1] = "Error: Agent '" /\ result[3] = "' not found."

\* what the caller of executeInvokeAgent received in this step
ReturnedResult ==
  IF turn'.path = "oneoff" THEN turn'.text
  ELSE IF turn'.selectedProvider = "gemini" THEN turn'.messageToSend[1].content
  ELSE openAIMessages'.msgs[Len(openAIMessages'.msgs)].content

\* C14: an invocation for a name that is not the display name of a persona
\* sends no request, does not throw into its caller, and returns a string
\* with the "not found" marker
C14_UnknownAgentIsNotFound ==
  [][(InvokeStep /\ ~IsDisplayName(InvokedName)) =>
       /\ ghost'.subRequests = (IF SubmitStep THEN 0 ELSE ghost.subRequests)
       /\ turn'.outcome # "Failed"
       /\ HasNotFoundMarker(ReturnedResult)]_vars

\* ---------------------------------------------------------- base persona
\* C15: while the active persona of a turn is CUA, the requests of the turn
\* declare no invokeAgent tool and the turn runs no delegation round
C15_BasePersonaNeverDelegates ==
  (NormalTurn /\ turn.selectedPersonaKey = "CUA") =>
    /\ turn.tools = <<>>
    /\ ghost.toolRounds = 0
    /\ ghost.delegations = 0

\* C16: no invocation of executeInvokeAgent, from a tool call or from a
\* mention, resolves to CUA and sends a request with the system prompt of CUA
C16_BasePersonaNeverReceives ==
  turn.pc = "delegate" =>
    /\ turn.call.agentKey # "CUA"
    /\ turn.call.request[1].content # generateSystemPrompt("CUA")

\* ------------------------------------------------------------ history store
\* the step calls saveHistory and the put succeeds
SaveStep == turn'.pc = "saving" /\ turn.pc # "saving" /\ turn'.saveOk

\* the step calls clearHistory
ClearStep ==
  Len(pending') = Len(pending) + 1 /\ pending'[Len(pending')].kind = "clear"

\* key and transcript handed to saveHistory by the step
SavedKey == SessionKey(turn'.selectedProvider, turn'.selectedPersonaKey)

GivenTranscript ==
  IF turn'.selectedProvider = "gemini" THEN geminiChat'.history
  ELSE openAIMessages'.msgs

\* the step issues getHistory for entry i of the continuations
LoadIssued(i) ==
  /\ Len(pending') >= Len(pending)
  /\ pending'[i].kind = "switch"
  /\ i > Len(pending) \/ pending[i] # pending'[i]

\* C17: after saveHistory(K, T) the record of K holds T as given, in either
\* shape, and no other record changed; a step that neither saves nor clears
\* changes no record; getHistory delivers the record as the store has it
C17_SaveLoadRoundTrip ==
  [][/\ SaveStep =>
          /\ getHistory(store', SavedKey) =
                [present |-> TRUE, history |-> GivenTranscript]
          /\ \A k \in SessionKeys \ {SavedKey} :
                getHistory(store', k) = getHistory(store, k)
     /\ (~SaveStep /\ ~ClearStep) =>
          \A k \in SessionKeys : getHistory(store', k) = getHistory(store, k)
     /\ \A i \in DOMAIN pending' :
          LoadIssued(i) =>
            pending'[i].session =
              getHistory(store', SessionKey(pending'[i].selectedProvider,
                                            pending'[i].selectedPersona))]_vars

\* a load is under way that returns the transcript a completed turn saved
C17_Witness ==
  /\ ghost.turnNo >= 1 /\ turn.outcome = "Completed" /\ turn.pc = "idle"
  /\ \E i \in DOMAIN pending :
       /\ pending[i].kind = "switch"
       /\ pending[i].session.present
       /\ Len(pending[i].session.history) >= 2
       /\ pending[i].session =
            store[SessionKey(pending[i].selectedProvider,
                             pending[i].selectedPersona)]
       /\ SessionKey(pending[i].selectedProvider, pending[i].selectedPersona)
            = SessionKey(turn.selectedProvider, turn.selectedPersonaKey)

\* key of the clearHistory call the step makes
ClearedKey ==
  SessionKey(pending'[Len(pending')].selectedProvider,
             pending'[Len(pending')].selectedPersona)

\* C18: after clearHistory(K) the store has no record of K, whether K had a
\* record, had been cleared before or was never saved, and no other record
\* changed
C18_ClearIsIdempotent ==
  [][ClearStep =>
       /\ getHistory(store', ClearedKey) = NoRecord
       /\ \A k \in SessionKeys \ {ClearedKey} :
             getHistory(store', k) = getHistory(store, k)]_vars

\* the session of a completed and saved turn has been cleared twice in a row
C18_Witness ==
  /\ turn.pc = "idle" /\ turn.outcome = "Completed" /\ ghost.saveCalls = 1
  /\ Len(pending) = 2
  /\ \A i \in 1..2 :
       /\ pending[i].kind = "clear"
       /\ SessionKey(pending[i].selectedProvider, pending[i].selectedPersona)
            = SessionKey(turn.selectedProvider, turn.selectedPersonaKey)
  /\ getHistory(store, SessionKey(turn.selectedProvider,
                                  turn.selectedPersonaKey)) = NoRecord

\* ------------------------------------------------------------------ launch
\* C19: without a credential the page stays as launchApp left it: the error
\* is shown once, the controls are disabled, and no turn, delegation, load,
\* save or session ever exists
C19_NoCredentialNoCore ==
  (~ai /\ ~openai) =>
    /\ controlsDisabled
    /\ turn = [IdleTurn EXCEPT !.error = NoKeysMessage]
    /\ pending = <<>>
    /\ \A k \in SessionKeys : getHistory(store, k) = NoRecord
    /\ ~geminiChat.init /\ ~openAIMessages.init
    /\ stagedFile = "none"
    /\ ghost = InitGhost

\* the page after a launch without any credential
C19_Witness ==
  /\ ~ai /\ ~openai
  /\ controlsDisabled
  /\ turn.error = NoKeysMessage

\* ------------------------------------------------------------- fold back
\* role-content form: every assistant message with tool calls is followed at
\* once by one tool message per call, with the id of the call
PairedRoleContent(msgs) ==
  \A i \in 1..Len(msgs) :
    (msgs[i].role = "assistant" /\ msgs[i].tool_calls # <<>>) =>
      \A j \in 1..Len(msgs[i].tool_calls) :
        /\ i + j <= Len(msgs)
        /\ msgs[i + j].role = "tool"
        /\ msgs[i + j].tool_call_id = msgs[i].tool_calls[j].id

PartsOfType(parts, type) == SelectSeq(parts, LAMBDA part : part.type = type)

\* turn-based form: every model content with function calls is followed at
\* once by a user content with one function response per call, by name
PairedTurnBased(history) ==
  \A i \in 1..Len(history) :
    LET calls == PartsOfType(history[i].parts, "functionCall") IN
    (history[i].role = "model" /\ calls # <<>>) =>
      /\ i + 1 <= Len(history)
      /\ history[i + 1].role = "user"
      /\ LET responses == PartsOfType(history[i + 1].parts, "functionResponse")
         IN /\ Len(responses) = Len(calls)
            /\ \A j \in 1..Len(calls) : responses[j].name = calls[j].call.name

\* the turn has ended, Completed or Failed
TurnBoundary == turn.pc = "idle" /\ turn.outcome \in {"Completed", "Failed"}

\* C20: at every turn boundary the role-content transcript in memory and
\* every stored record hold no unanswered tool call
C20_DelegationsArePaired ==
  TurnBoundary =>
    /\ PairedRoleContent(openAIMessages.msgs)
    /\ \A k \in SessionKeys :
         getHistory(store, k).present =>
           IF k[1] = "gemini" THEN PairedTurnBased(getHistory(store, k).history)
           ELSE PairedRoleContent(getHistory(store, k).history)

\* ------------------------------------------------------------- transcripts
\* C21: a record written over a record of the same key, with no clear of the
\* key in between, extends the transcript of the earlier record
C21_TranscriptAppendOnly ==
  [][(SaveStep /\ getHistory(store, SavedKey).present) =>
       IsPrefix(getHistory(store, SavedKey).history,
                getHistory(store', SavedKey).history)]_vars

\* C22: every record of a role-content session begins with the system message
\* of the persona of its key and holds no other system message
C22_RecordBeginsWithOwnSystemMessage ==
  \A k \in SessionKeys :
    (k[1] = "openai" /\ getHistory(store, k).present) =>
      LET history == getHistory(store, k).history IN
      /\ history # <<>>
      /\ history[1] = OpenAISystem(generateSystemPrompt(k[2]))
      /\ \A i \in 2..Len(history) : history[i].role # "system"

\* --------------------------------------------------------- session switch
\* the step changes a selector
SelectStep == modelSelector' # modelSelector \/ personaSelector' # personaSelector

\* the session read by a load has a transcript with a message of the operator
Meaningful(session) ==
  /\ session.present
  /\ \E j \in 1..Len(session.history) : session.history[j].role = "user"

\* the step seeded the context of p's provider from p's load: the transcript
\* as loaded, or a fresh context of p's persona when there is none
LoadOrCreate(p) ==
  IF p.selectedProvider = "openai"
  THEN /\ geminiChat' = geminiChat
       /\ openAIMessages'.init
       /\ openAIMessages'.msgs =
            IF Meaningful(p.session) THEN p.session.history
            ELSE <<OpenAISystem(generateSystemPrompt(p.selectedPersona))>>
  ELSE /\ openAIMessages' = openAIMessages
       /\ geminiChat'.init
       /\ geminiChat'.systemInstruction = generateSystemPrompt(p.selectedPersona)
       /\ geminiChat'.history =
            IF Meaningful(p.session) THEN p.session.history ELSE <<>>

\* C23, the part that holds of every step: every change of a selector issues
\* a load of the new session key; when
\* the load returns, the context is the loaded transcript verbatim, or a fresh
\* one if there is none; and the first request of a turn carries the context
\* followed by the new user turn
C23_SwitchLoadsOrCreatesVerbatim ==
  [][/\ SelectStep =>
          /\ Len(pending') = Len(pending) + 1
          /\ pending'[Len(pending')] =
               [kind |-> "switch", selectedProvider |-> modelSelector',
                selectedPersona |-> personaSelector',
                session |-> getHistory(store, SessionKey(modelSelector',
                                                         personaSelector'))]
     /\ Len(pending') < Len(pending) =>
          \E i \in DOMAIN pending :
            /\ pending' = RemoveAt(pending, i)
            /\ pending[i].kind = "switch"
            /\ LoadOrCreate(pending[i])
     /\ (SubmitStep /\ turn'.pc = "request") =>
          IF turn'.selectedProvider = "openai"
          THEN openAIMessages'.msgs =
                 Append(openAIMessages.msgs,
                        OpenAIUser(turn'.userInput, "none", ghost'.turnNo))
          ELSE /\ geminiChat' = geminiChat
               /\ turn'.messageToSend = <<TextPart(turn'.userInput)>>]_vars

\* after a completed turn the operator went to another session and came back:
\* the context is the transcript the turn saved
C23_Witness ==
  /\ turn.pc = "idle" /\ turn.outcome = "Completed" /\ ~turn.attached
  /\ ghost.turnNo = 1 /\ ghost.opsDone = 2 /\ ~ghost.replaced
  /\ pending = <<>>
  /\ modelSelector = turn.selectedProvider
  /\ personaSelector = turn.selectedPersonaKey
  /\ LET T == getHistory(store, SessionKey(modelSelector, personaSelector))
     IN /\ T.present /\ Len(T.history) >= 2
        /\ IF modelSelector = "gemini" THEN geminiChat.history = T.history
           ELSE openAIMessages.msgs = T.history

\* C23 as claimed: once a turn on session K has completed and saved T with no
\* load under way, and the operator has gone to other sessions and come back
\* to K, the context of K is T when the loads have returned
C23_SwitchBackRestoresTranscript ==
  (/\ turn.pc = "idle" /\ turn.outcome = "Completed"
   /\ ghost.loadsAtSave = 0 /\ ghost.opsDone > ghost.opsAtSave
   /\ pending = <<>> /\ stagedFile = "none"
   /\ modelSelector = turn.selectedProvider
   /\ personaSelector = turn.selectedPersonaKey
   /\ getHistory(store, SessionKey(modelSelector, personaSelector)).present) =>
     LET T == getHistory(store, SessionKey(modelSelector, personaSelector))
     IN IF modelSelector = "gemini" THEN geminiChat.history = T.history
        ELSE openAIMessages.msgs = T.history

\* ------------------------------------------------------------ failed turns
\* C24: when a turn has ended Failed because a provider call failed, the
\* context of its provider holds no message that the turn appended
C24_FailureLeavesContext ==
  (NormalTurn /\ turn.pc = "idle" /\ turn.outcome = "Failed"
   /\ turn.cause = "provider") =>
     IF turn.selectedProvider = "openai"
     THEN \A i \in 1..Len(openAIMessages.msgs) :
            openAIMessages.msgs[i].turn # ghost.turnNo
     ELSE \A i \in 1..Len(geminiChat.history) :
            geminiChat.history[i].turn # ghost.turnNo

TemplateOf(name, role, description, tone) ==
  <<"You are ", name, ", a ">> \o role \o <<". ">> \o description
  \o <<" Your tone must be ">> \o tone
  \o <<". You can invoke other agents for tasks outside your expertise.">>

PrescribedPrompt(k) ==
  IF k = "CUA" THEN PERSONAS["CUA"].description
  ELSE TemplateOf(PERSONAS[k].name, PERSONAS[k].role, PERSONAS[k].description,
                  PERSONAS[k].tone)

\* C26: wherever the program builds a system prompt (a context created by a
\* session switch on either provider, the request of a delegation) it is the
\* prescribed prompt of the persona, whatever the provider and the state
C26_SystemPromptOfPersona ==
  [][/\ Len(pending') < Len(pending) =>
          \E i \in DOMAIN pending :
            LET p == pending[i] IN
            /\ pending' = RemoveAt(pending, i)
            /\ p.selectedProvider = "gemini" =>
                 geminiChat'.systemInstruction = PrescribedPrompt(p.selectedPersona)
            /\ (p.selectedProvider = "openai" /\ ~Meaningful(p.session)) =>
                 openAIMessages'.msgs =
                   <<OpenAISystem(PrescribedPrompt(p.selectedPersona))>>
     /\ turn'.pc = "delegate" =>
          turn'.call.request[1].content = PrescribedPrompt(turn'.call.agentKey)]_vars

\* a turn of the base persona, whose context begins with the raw description,
\* is delegating to Kara under Kara's composed prompt
C26_Witness ==
  /\ NormalTurn /\ turn.pc = "delegate" /\ turn.selectedProvider = "openai"
  /\ turn.selectedPersonaKey = "CUA"
  /\ openAIMessages.msgs[1].content = <<"description", "CUA">>
  /\ turn.call.agentKey = "Kara"
  /\ turn.call.request[1].content =
       <<"You are ", "Kara", ", a ", "role", "Kara", ". ", "description", "Kara",
         " Your tone must be ", "tone", "Kara",
         ". You can invoke other agents for tasks outside your expertise.">>

\* ------------------------------------------------- shape of a completed turn
\* the last 2k + 2 messages of msgs are those of turn n with k delegation
\* rounds: the user message, k times a tool-call message and its tool message,
\* and the final assistant message
TurnShape(msgs, n, k, userInput, answer) ==
  LET base == Len(msgs) - (2 * k + 2) IN
  /\ base >= 1
  /\ \A i \in 1..base : msgs[i].turn # n
  /\ \A i \in (base + 1)..Len(msgs) : msgs[i].turn = n
  /\ msgs[base + 1].role = "user" /\ msgs[base + 1].content = userInput
  /\ \A j \in 1..k :
       /\ msgs[base + 2 * j].role = "assistant"
       /\ msgs[base + 2 * j].tool_calls # <<>>
       /\ msgs[base + 2 * j + 1].role = "tool"
       /\ msgs[base + 2 * j + 1].tool_call_id = msgs[base + 2 * j].tool_calls[1].id
  /\ msgs[Len(msgs)].role = "assistant"
  /\ msgs[Len(msgs)].tool_calls = <<>>
  /\ msgs[Len(msgs)].content = answer

\* C27: when a turn on the role-content provider completes after k delegation
\* rounds, the transcript ends with the 2k + 2 messages of the turn in order,
\* the last one holding the displayed answer, and the record saved for the
\* turn is that transcript
C27_CompletedTurnShape ==
  [][(SaveStep /\ turn'.path = "normal" /\ turn'.selectedProvider = "openai") =>
       /\ TurnShape(openAIMessages'.msgs, ghost'.turnNo, ghost'.toolRounds,
                    turn'.userInput, turn'.text)
       /\ getHistory(store', SavedKey) = ChatSession(openAIMessages'.msgs)]_vars

\* ---------------------------------------------------- sequential delegation
\* the step folds a tool response back into the parent turn
FoldBackStep == ghost'.responses = ghost.responses + 1

\* the tool response of the step, as the parent turn hands it to the provider
FoldedBack ==
  IF turn'.selectedProvider = "gemini" THEN turn'.messageToSend[1].content
  ELSE openAIMessages'.msgs[Len(openAIMessages'.msgs)].content

\* tool messages that turn n has appended to msgs
ToolMessages(msgs, n) ==
  Cardinality({i \in 1..Len(msgs) : msgs[i].turn = n /\ msgs[i].role = "tool"})

\* C28: while executeInvokeAgent runs for a tool call, the parent turn sends no
\* request and its transcript has no tool message for the round; the response
\* is folded back, and the next request sent, in the step in which
\* executeInvokeAgent returns, and it carries exactly the returned result
C28_DelegationIsSequential ==
  [][/\ (turn'.path = "normal" /\ turn'.pc = "delegate") =>
          /\ ghost'.responses = 0
          /\ ghost'.requests = ghost.requests
          /\ turn'.selectedProvider = "openai" =>
               ToolMessages(openAIMessages'.msgs, ghost'.turnNo)
                 \in {0, ghost'.toolRounds - 1}
     /\ FoldBackStep =>
          /\ turn.pc = "delegate" \/ InvokeStep
          /\ turn'.pc = "request"
          /\ ghost'.requests = ghost.requests + 1
          /\ FoldedBack = ghost'.result]_vars

\* the delegation of a tool call has returned: its result is the tool message
\* at the end of the transcript and the next request is out
C28_Witness ==
  /\ NormalTurn /\ turn.pc = "request" /\ turn.selectedProvider = "openai"
  /\ ghost.responses = 1 /\ ghost.requests = 2 /\ ghost.subRequests = 1
  /\ ghost.result = <<"R">>
  /\ openAIMessages.msgs[Len(openAIMessages.msgs)].role = "tool"
  /\ openAIMessages.msgs[Len(openAIMessages.msgs)].content = <<"R">>

\* ------------------------------------------------------- tool declaration
Elements(seq) == {seq[i] : i \in 1..Len(seq)}

\* display names of all personas but P and the base persona
Delegatable(P) == {PERSONAS[k].name : k \in DOMAIN PERSONAS \ {P, "CUA"}}

\* C29: for the active persona P of a turn, both declarations of getTools(P)
\* list exactly the display names of the personas other than P and CUA, and
\* the requests of the turn declare that list
C29_ToolEnumIsDelegatable ==
  (NormalTurn /\ turn.pc = "request") =>
    LET P == turn.selectedPersonaKey IN
    /\ Elements(getTools(P).gemini) = Delegatable(P)
    /\ Elements(getTools(P).openai) = Delegatable(P)
    /\ Elements(turn.tools) = Delegatable(P)

\* a request of a turn of Lyra is out, declaring the eight other specialists
C29_Witness ==
  /\ NormalTurn /\ turn.pc = "request" /\ turn.selectedPersonaKey = "Lyra"
  /\ Len(turn.tools) = 8
  /\ "Kara" \in Elements(turn.tools)
  /\ "Lyra" \notin Elements(turn.tools)
  /\ "CUA" \notin Elements(turn.tools)

\* ----------------------------------------------------- tool-call reassembly
\* the step is the arrival of one chunk of the stream
ChunkStep ==
  /\ turn.pc = "stream" /\ turn.stream # <<>>
  /\ ghost'.faults = ghost.faults
  /\ \/ turn'.pc = "stream" /\ turn'.stream = Tail(turn.stream)
     \/ turn'.pc = "idle"

\* C30: on the role-content provider, after every chunk the arguments of the
\* tool call at each index are the concatenation, in arrival order, of the
\* fragments that carried the index, whatever the order of the indices, and
\* the stream goes on
C30_ArgumentsReassembledPerIndex ==
  [][(ChunkStep /\ turn.selectedProvider = "openai") =>
       /\ turn'.pc = "stream"
       /\ LET deltas == AllCalls(SubSeq(ghost'.script, 1,
                                        Len(ghost'.script) - Len(turn'.stream)))
          IN \A i \in 1..Len(deltas) :
               /\ deltas[i].index < Len(turn'.calls)
               /\ turn'.calls[deltas[i].index + 1].arguments =
                    ArgumentsOfIndex(deltas, deltas[i].index)]_vars

\* ------------------------------------------- failure inside a delegation
\* the step is the rejection of the provider call of executeInvokeAgent
DelegateFailStep == turn.pc = "delegate" /\ ghost'.faults = ghost.faults + 1

\* the string contains the message
ContainsMessage(result, errorMessage) ==
  \E i \in 1..Len(result) : result[i] = errorMessage

C31_WitnessToolRound ==
  /\ ghost.delegateFailed /\ ghost.subRequests = 1 /\ ghost.errorEvents = 1
  /\ ContainsMessage(ghost.result, ProviderErrorMessage)
  /\ turn.path = "normal" /\ turn.pc = "request"
\* ------------------------------------------------------ release of controls
\* a step of the turn in progress: a call the handler awaits returns or fails
TurnStep ==
  \/ FileDone \/ RequestOk \/ RequestFail \/ StreamChunk \/ StreamFail
  \/ StreamEnd \/ DelegateReturn \/ DelegateFail \/ SaveDone

\* the runs on which the release is followed to its end: those of at most
\* LiveEvents submissions, operator actions, tool requests and failures
WithinLiveEvents == ghost'.events <= LiveEvents

NextLive ==
  \/ Submit /\ WithinLiveEvents
  \/ FileDone /\ WithinLiveEvents
  \/ RequestOk /\ WithinLiveEvents
  \/ RequestFail /\ WithinLiveEvents
  \/ StreamChunk /\ WithinLiveEvents
  \/ StreamFail /\ WithinLiveEvents
  \/ StreamEnd /\ WithinLiveEvents
  \/ DelegateReturn /\ WithinLiveEvents
  \/ DelegateFail /\ WithinLiveEvents
  \/ SaveDone /\ WithinLiveEvents
  \/ ModelChange /\ WithinLiveEvents
  \/ PersonaChange /\ WithinLiveEvents
  \/ SwitchFinish /\ WithinLiveEvents
  \/ ClearStart /\ WithinLiveEvents
  \/ ClearContinue /\ WithinLiveEvents
  \/ StageFile /\ WithinLiveEvents

\* every call the handler awaits eventually returns or fails
FairSpec ==
  Init /\ [][NextLive]_vars /\ WF_vars(TurnStep /\ WithinLiveEvents)

\* the turn has ended and the controls are enabled again
Released ==
  /\ turn.pc = "idle" /\ ~controlsDisabled
  /\ turn.outcome \in {"Completed", "Failed"}

C32_WitnessOneOff ==
  /\ Released /\ turn.path = "oneoff" /\ ghost.subRequests = 1

\* ------------------------------------------------- records are meaningful
\* C33: every record of the store holds a message of role user, so that a
\* load of a saved session restores it and never creates a fresh one
C33_SavedRecordsAreMeaningful ==
  \A k \in SessionKeys :
    getHistory(store, k).present => Meaningful(getHistory(store, k))

\* C33 on the turns whose context no session load replaced: every record a
\* step writes holds a message of role user
C33_UndisturbedRecordIsMeaningful ==
  [][\A k \in SessionKeys :
       (getHistory(store', k) # getHistory(store, k)
        /\ getHistory(store', k).present /\ ~ghost'.replaced) =>
          Meaningful(getHistory(store', k))]_vars

\* ------------------------------------------------------- leading mention
\* the operator types one of MentionInputs
SubmitMention == SubmitOf(MentionInputs)

\* the submissions of the texts of MentionInputs under every choice of
\* provider, persona and staged file
NextMention ==
  \/ SubmitMention
  \/ ModelChange
  \/ PersonaChange
  \/ SwitchFinish
  \/ StageFile

MentionSpec == Init /\ [][NextMention]_vars

\* name is the display name of a persona, whatever the case of its letters
KnownPersona(name) ==
  \E k \in DOMAIN PERSONAS : toLowerCase(PERSONAS[k].name) = toLowerCase(name)

\* the text opens with "@name" for a persona and goes on with a remainder
\* that is not blank, and no file is staged
ActedOn(raw) ==
  LET mentionMatched == mentionMatch(trim(raw)) IN
  /\ stagedFile = "none"
  /\ mentionMatched.matched
  /\ KnownPersona(mentionMatched.name)
  /\ trim(mentionMatched.rest) # <<>>

\* the mention of raw names the active persona
NamesActive(raw) ==
  toLowerCase(mentionMatch(trim(raw)).name) =
    toLowerCase(PERSONAS[personaSelector].name)

\* C34: a leading mention is acted on in two cases only, both with a known
\* persona, a remainder and no staged file: another persona (one-off
\* delegation) and the active persona (the mention is stripped); in every
\* other case the trimmed text goes unchanged to the normal path, and no
\* text that is not blank is dropped
C34_MentionActedOnInTwoCases ==
  /\ [](\A raw \in MentionInputs :
          (~controlsDisabled /\ (trim(raw) # <<>> \/ stagedFile # "none")) =>
             ~returnsAtOnce(raw))
  /\ [][SubmitStep =>
          LET raw == ghost'.typed IN
          IF ActedOn(raw) /\ ~NamesActive(raw)
          THEN /\ turn'.path = "oneoff"
               /\ ghost'.delegations = 1
               /\ ghost'.requests = 0
          ELSE /\ turn'.path = "normal"
               /\ \/ /\ turn'.pc # "idle"
                     /\ turn'.fileToProcess = stagedFile
                     /\ turn'.userInput =
                          IF ActedOn(raw) THEN Remainder(raw) ELSE trim(raw)
                  \/ /\ turn'.pc = "idle"
                     /\ turn'.outcome = "Failed"
                     /\ ~(turn'.selectedProvider = "gemini" /\ geminiChat.init)
                     /\ ~(turn'.selectedProvider = "openai"
                          /\ openAIMessages.init)]_vars

\* a text whose mention names no persona went whole to the normal path
C34_Witness ==
  /\ NormalTurn /\ turn.pc = "request"
  /\ ghost.typed = <<"@", "Bob", " ", "hi">>
  /\ turn.userInput = <<"@", "Bob", " ", "hi">>

\* the same for the mention of another persona typed while a file is staged
C34_WitnessStagedFile ==
  /\ NormalTurn /\ turn.pc = "file" /\ turn.fileToProcess # "none"
  /\ turn.selectedPersonaKey = "CUA"
  /\ turn.userInput = <<"@", "Lyra", " ", "hi">>

\* the same for a mention without remainder, typed with blanks around it
C34_WitnessNoRemainder ==
  /\ NormalTurn /\ turn.pc = "request"
  /\ ghost.typed = <<"@", "CUA", " ">>
  /\ turn.userInput = <<"@", "CUA">>

\* a mention followed by a comma was acted on as a one-off delegation
C34_WitnessOneOff ==
  /\ turn.path = "oneoff" /\ turn.pc = "delegate"
  /\ ghost.typed = <<" ", "@", "Lyra", ",", "hi", " ">>
  /\ turn.call.prompt = <<"hi">>

====
